---- MODULE Spec2Model ----
(***************************************************************************)
(* Model of trainer-service/python_trainer.py: the pipeline around the     *)
(* external additive-model fitter (curve evaluation and resampling,        *)
(* intercept calibration, refit orchestration).                            *)
(*                                                                         *)
(* Numbers.  Curve coordinates and contributions are exact rationals       *)
(* <<numerator, denominator>>.  The x axis is counted in units of 5e-10,   *)
(* so that the denominator floor 1e-9 of interpolate_numeric is DenFloor   *)
(* units and knots closer than the floor can be written down.              *)
(***************************************************************************)
EXTENDS Integers, Sequences, FiniteSets, TLC

VARIABLES
    pc,             \* position of the operation being modelled
    shape_fn,       \* curve spec: the shape function handed to the helper
    feat_values,    \* curve spec: the feature values evaluated
    num_points,     \* curve spec: knot count asked of the resampler
    cat_info,       \* categorical metadata: feature key -> category labels
    contribs,       \* curve spec: result of evaluate_contribs
    normalized,     \* curve spec: result of normalize_numeric_shape_points
    renormalized,   \* curve spec: result of normalizing `normalized` again
    task_type,      \* "regression" or "classification"
    y_train,        \* train targets, one per row
    total_train,    \* summed contributions, one per train row
    intercept_val,  \* the calibrated intercept
    preds_train,    \* train predictions
    edited_partials,\* the Partials a refit request carries
    updates,        \* the updates built from the edits: feature key -> shape function
    eval_key,       \* edit spec: the key whose update is evaluated
    request,        \* the train or refit request being served
    model,          \* the external model object built for the request
    calls,          \* the calls made on the external model, in order
    outcome,        \* "pending", "ok", or the HTTP error status "400" / "500"
    response,       \* the response body of a successful request
    disk,           \* saved-model store: the content of each file
    threads,        \* saved-model store: the requests in flight
    completed       \* saved-model store: the saves that returned, in order

curveVars == <<shape_fn, feat_values, num_points, contribs, normalized, renormalized>>
calibVars == <<task_type, y_train, total_train, intercept_val, preds_train>>

editVars == <<edited_partials, updates, eval_key>>

reqVars == <<request, model, calls, outcome, response>>

storeVars == <<disk, threads, completed>>

vars == <<pc, cat_info, curveVars, calibVars, editVars, reqVars, storeVars>>

----------------------------------------------------------------------------
(* Bounds of the model *)

MaxKnots == 3
MaxPoints == 4
MaxRows == 3
MaxEdits == 2
\* significand bits of the model's floating-point numbers (float64 has 53)
FloatBits == 5
\* bisection steps run by the model (the code runs 40); the model's sigmoid
\* carries 14 fractional bits, too few to tell 40 halvings of [-12, 12] apart
BisectIters == 10

----------------------------------------------------------------------------
(* Rational arithmetic *)

Abs(n) == IF n < 0 THEN -n ELSE n

RECURSIVE Gcd(_, _)
Gcd(a, b) == IF b = 0 THEN a ELSE Gcd(b, a % b)

Rat(n, d) ==
    LET s == IF d < 0 THEN -1 ELSE 1
        g == Gcd(Abs(n), Abs(d))
    IN  <<(s * n) \div g, (s * d) \div g>>

Zero == <<0, 1>>
One == <<1, 1>>
RInt(n) == <<n, 1>>
RAdd(a, b) == Rat(a[1] * b[2] + b[1] * a[2], a[2] * b[2])
RSub(a, b) == Rat(a[1] * b[2] - b[1] * a[2], a[2] * b[2])
RMul(a, b) == Rat(a[1] * b[1], a[2] * b[2])
RDiv(a, b) == Rat(a[1] * b[2], a[2] * b[1])
RLt(a, b) == a[1] * b[2] < b[1] * a[2]
RLe(a, b) == a[1] * b[2] <= b[1] * a[2]
RMax(a, b) == IF RLt(a, b) THEN b ELSE a

----------------------------------------------------------------------------
(* Shape functions and feature values *)

\* SAVED_MODELS_DIR with no file in it
NoDisk == [f \in {} |-> <<>>]

\* The empty dict {} (and any dict without datatype, x and y).
EmptyShape == [datatype |-> "none", x |-> <<>>, y |-> <<>>]

\* A feature value is a string (a category label) or a number.
Str(s) == [str |-> s]
Num(r) == [num |-> r]
IsStr(v) == "str" \in DOMAIN v

Zeros(values) == [i \in 1..Len(values) |-> Zero]

----------------------------------------------------------------------------
(* interpolate_numeric *)

\* 1e-9, in x units of 5e-10
DenFloor == 2

Zip(xs, ys) == [i \in 1..Len(xs) |-> <<xs[i], ys[i]>>]

\* One insertion of the stable sort by x: p goes after every pair whose x is
\* not greater.
RECURSIVE InsertPair(_, _)
InsertPair(s, p) ==
    IF s = <<>> THEN <<p>>
    ELSE IF RLt(p[1], Head(s)[1]) THEN <<p>> \o s
    ELSE <<Head(s)>> \o InsertPair(Tail(s), p)

\* The pairs left in the order given.
SortPairs_AsGiven(pairs) == pairs

\* sorted(pairs, key=lambda p: p[0])
RECURSIVE SortPairs(_)
SortPairs(pairs) ==
    IF pairs = <<>> THEN <<>>
    ELSE InsertPair(SortPairs(SubSeq(pairs, 1, Len(pairs) - 1)), pairs[Len(pairs)])

\* lines 88-92: the interval of v and the interpolated value, for
\* sx[1] < v < sx[Len(sx)]
InterpolateInside(v, sx, sy) ==
    LET hi == CHOOSE i \in 1..Len(sx) :
                  /\ RLe(v, sx[i])
                  /\ \A j \in 1..(i - 1) : ~RLe(v, sx[j])
        lo == hi - 1
        t  == RDiv(RSub(v, sx[lo]), RMax(RInt(DenFloor), RSub(sx[hi], sx[lo])))
    IN  RAdd(RMul(sy[lo], RSub(One, t)), RMul(sy[hi], t))

interpolate_numeric(values, xs, ys) ==
    IF Len(xs) = 0 \/ Len(ys) = 0 \/ Len(xs) # Len(ys)
    THEN Zeros(values)
    ELSE LET pairs == SortPairs(Zip(xs, ys))
             sx == [i \in 1..Len(pairs) |-> pairs[i][1]]
             sy == [i \in 1..Len(pairs) |-> pairs[i][2]]
             n  == Len(pairs)
         IN  [i \in 1..Len(values) |->
                 IF RLe(values[i], sx[1]) THEN sy[1]
                 ELSE IF RLe(sx[n], values[i]) THEN sy[n]
                 ELSE InterpolateInside(values[i], sx, sy)]

----------------------------------------------------------------------------
(* evaluate_contribs *)

\* int(round(v)): Python rounds halves to the even neighbour
RoundHalfEven(r) ==
    LET fl  == r[1] \div r[2]
        rem == RSub(r, RInt(fl))
    IN  IF RLt(rem, <<1, 2>>) THEN fl
        ELSE IF RLt(<<1, 2>>, rem) THEN fl + 1
        ELSE IF fl % 2 = 0 THEN fl ELSE fl + 1

\* mapping = {c: vals[i] if i < len(vals) else 0.0 ...}; mapping.get(cname, 0.0):
\* a label listed twice keeps its last entry.
CatLookup(cats, vals, cname) ==
    LET at == {i \in 1..Len(cats) : cats[i] = cname}
    IN  IF at = {} THEN Zero
        ELSE LET i == CHOOSE k \in at : \A j \in at : j <= k
             IN  IF i <= Len(vals) THEN vals[i] ELSE Zero

NoLabel == "<None>"

\* line 113-114, for a value that is not a string; categories[idx] with a
\* negative idx counts from the end of the list.
IndexLabel(v, categories) ==
    LET idx == RoundHalfEven(v.num)
        n   == Len(categories)
    IN  IF n > 0 /\ idx < n
        THEN (IF idx >= 0 THEN categories[idx + 1] ELSE categories[n + idx + 1])
        ELSE NoLabel

\* categories[idx] raises IndexError for idx < -len(categories)
IndexRaises(v, categories) ==
    /\ ~IsStr(v)
    /\ Len(categories) > 0
    /\ RoundHalfEven(v.num) < -Len(categories)

evaluate_raises(shape, values, categories) ==
    /\ shape # EmptyShape
    /\ shape.datatype = "categorical"
    /\ \E i \in 1..Len(values) : IndexRaises(values[i], categories)

\* categories = <<>> stands for None and for the empty list alike
evaluate_contribs(shape, values, categories) ==
    IF shape = EmptyShape THEN Zeros(values)
    ELSE IF shape.datatype = "categorical"
    THEN [i \in 1..Len(values) |->
             LET v == values[i]
                 cname == IF IsStr(v) THEN v.str ELSE IndexLabel(v, categories)
             IN  CatLookup(shape.x, shape.y, cname)]
    ELSE interpolate_numeric([i \in 1..Len(values) |-> values[i].num],
                             shape.x, shape.y)

----------------------------------------------------------------------------
(* normalize_numeric_shape_points *)

Min(a, b) == IF a < b THEN a ELSE b
Max(a, b) == IF a < b THEN b ELSE a

\* np.linspace with the last point left where the step puts it short of stop
\* (endpoint=False)
linspace_NoEndpoint(start, stop, num) ==
    LET step == RDiv(RSub(stop, start), RInt(num))
    IN  [i \in 1..num |-> RAdd(start, RMul(RInt(i - 1), step))]

\* np.linspace(start, stop, num) for num >= 2
linspace(start, stop, num) ==
    LET step == RDiv(RSub(stop, start), RInt(num - 1))
    IN  [i \in 1..num |->
            IF i = num THEN stop ELSE RAdd(start, RMul(RInt(i - 1), step))]

\* lines 130-161: the loop body for one key
NormalizeShape(shape, key_in_cat, points) ==
    IF shape = EmptyShape THEN shape
    ELSE IF key_in_cat \/ shape.datatype = "categorical" THEN shape
    ELSE LET pair_count == Min(Len(shape.x), Len(shape.y))
         IN  IF pair_count = 0 THEN shape
             ELSE LET pairs == SortPairs(Zip(SubSeq(shape.x, 1, pair_count),
                                             SubSeq(shape.y, 1, pair_count)))
                      xs_sorted == [i \in 1..pair_count |-> pairs[i][1]]
                      ys_sorted == [i \in 1..pair_count |-> pairs[i][2]]
                      min_x == xs_sorted[1]
                      max_x == xs_sorted[pair_count]
                      target_x == IF points <= 1 THEN <<min_x>>
                                  ELSE linspace(min_x, max_x, points)
                      target_y == interpolate_numeric(target_x, xs_sorted, ys_sorted)
                  IN  [datatype |-> "numerical", x |-> target_x, y |-> target_y]

\* shape_functions and cat_info are functions on the keys they hold;
\* feature_keys is the ordered key list.
normalize_numeric_shape_points(shape_functions, feature_keys, cats, points) ==
    [key \in {feature_keys[i] : i \in 1..Len(feature_keys)} |->
        NormalizeShape(IF key \in DOMAIN shape_functions
                       THEN shape_functions[key] ELSE EmptyShape,
                       key \in DOMAIN cats, points)]

----------------------------------------------------------------------------
(* Specification of the curve helpers: a shape function is drawn, then     *)
(* evaluated at feature values, or resampled and resampled again.          *)

XVals == {0, 1, 3}
YVals == {0, 1, -2}
QVals == {-3, -1, 0, 1, 2, 3, 4}
Labels == {"a", "b"}

SeqsUpTo(S, n) == UNION {[1..k -> S] : k \in 0..n}

RatsOf(S) == {RInt(v) : v \in S}

NumericShapes ==
    {[datatype |-> "numerical", x |-> xs, y |-> ys] :
        xs \in SeqsUpTo(RatsOf(XVals), MaxKnots),
        ys \in SeqsUpTo(RatsOf(YVals), MaxKnots)}

CategoricalShapes ==
    {[datatype |-> "categorical", x |-> xs, y |-> ys] :
        xs \in SeqsUpTo(Labels, 2), ys \in SeqsUpTo(RatsOf(YVals), 2)}

NoCatInfo == [k \in {} |-> <<>>]
None == "None"

CurveInit ==
    /\ pc = "start"
    /\ \/ shape_fn \in NumericShapes
       \/ shape_fn \in CategoricalShapes
       \/ shape_fn = EmptyShape
    /\ cat_info \in {NoCatInfo, [k \in {"f"} |-> <<"a", "b">>]}
    /\ shape_fn.datatype = "categorical" => cat_info # NoCatInfo
    /\ feat_values = <<>>
    /\ num_points = 0
    /\ contribs = None
    /\ normalized = None
    /\ renormalized = None
    /\ task_type = None /\ y_train = <<>> /\ total_train = <<>>
    /\ intercept_val = Zero /\ preds_train = <<>>
    /\ edited_partials = <<>> /\ updates = NoCatInfo /\ eval_key = None
    /\ request = None /\ model = None /\ calls = <<>>
    /\ outcome = None /\ response = None
    /\ disk = NoDisk /\ threads = <<>> /\ completed = <<>>

CatsOf(key) == IF key \in DOMAIN cat_info THEN cat_info[key] ELSE <<>>

\* evaluate_contribs(shape_fn, features[key], cat_info.get(key))
Evaluate ==
    /\ pc = "start"
    /\ \E vals \in (SeqsUpTo({Num(RInt(q)) : q \in QVals}, 1)
                    \cup SeqsUpTo({Str(l) : l \in Labels \cup {"zz"}}, 1)) :
          /\ (shape_fn # EmptyShape /\ shape_fn.datatype # "categorical"
                 => \A i \in 1..Len(vals) : ~IsStr(vals[i]))
          /\ feat_values' = vals
          /\ IF evaluate_raises(shape_fn, vals, CatsOf("f"))
             THEN pc' = "raised" /\ contribs' = None
             ELSE /\ pc' = "evaluated"
                  /\ contribs' = evaluate_contribs(shape_fn, vals, CatsOf("f"))
    /\ UNCHANGED <<shape_fn, num_points, cat_info, storeVars, normalized, renormalized, calibVars, editVars, reqVars>>

\* normalize_numeric_shape_points({"f": shape_fn}, ["f"], cat_info, num_points)
Normalize ==
    /\ pc = "start"
    /\ \E points \in 2..MaxPoints :
          /\ num_points' = points
          /\ normalized' = normalize_numeric_shape_points(
                               [k \in {"f"} |-> shape_fn], <<"f">>, cat_info, points)["f"]
    /\ pc' = "normalized"
    /\ UNCHANGED <<shape_fn, feat_values, cat_info, storeVars, contribs, renormalized, calibVars, editVars, reqVars>>

\* the resampled curve resampled again to the same point count
Renormalize ==
    /\ pc = "normalized"
    /\ renormalized' = normalize_numeric_shape_points(
                           [k \in {"f"} |-> normalized], <<"f">>, cat_info, num_points)["f"]
    /\ pc' = "renormalized"
    /\ UNCHANGED <<shape_fn, feat_values, num_points, cat_info, storeVars, contribs, normalized, calibVars, editVars, reqVars>>

CurveNext == Evaluate \/ Normalize \/ Renormalize

SpecCurve == CurveInit /\ [][CurveNext]_vars

----------------------------------------------------------------------------
(* Properties of the curve helpers *)

IsNumericInput ==
    /\ shape_fn # EmptyShape
    /\ shape_fn.datatype # "categorical"

PairCount == Min(Len(shape_fn.x), Len(shape_fn.y))

\* smallest and largest of the first n knots of xs
MinOf(xs, n) == CHOOSE m \in {xs[i] : i \in 1..n} : \A j \in 1..n : RLe(m, xs[j])
MaxOf(xs, n) == CHOOSE m \in {xs[i] : i \in 1..n} : \A j \in 1..n : RLe(xs[j], m)
FirstAt(xs, v) == CHOOSE i \in 1..Len(xs) : xs[i] = v /\ \A j \in 1..(i - 1) : xs[j] # v
LastAt(xs, v) == CHOOSE i \in 1..Len(xs) : xs[i] = v /\ \A j \in (i + 1)..Len(xs) : xs[j] # v

StrictlyIncreasing(xs) == \A i \in 1..(Len(xs) - 1) : RLt(xs[i], xs[i + 1])

\* C3: a numeric shape function with equal-length non-empty x and y, in any
\* input order, evaluates every value below its smallest knot to the y paired
\* with the smallest knot (the first such pair given) and every value above
\* its largest knot to the y paired with the largest knot (the last such
\* pair given).
C3_Clamping ==
    (/\ pc = "evaluated"
     /\ IsNumericInput
     /\ Len(shape_fn.x) = Len(shape_fn.y)
     /\ Len(shape_fn.x) > 0)
    => LET xs == shape_fn.x
           ys == shape_fn.y
           lo == MinOf(xs, Len(xs))
           hi == MaxOf(xs, Len(xs))
       IN  \A i \in 1..Len(feat_values) :
               /\ RLt(feat_values[i].num, lo) => contribs[i] = ys[FirstAt(xs, lo)]
               /\ RLt(hi, feat_values[i].num) => contribs[i] = ys[LastAt(xs, hi)]

\* C3 witness: knots given out of order, a value below the smallest knot, and
\* the clamped result is not the first y of the input.
C3_Witness ==
    /\ pc = "evaluated"
    /\ IsNumericInput
    /\ Len(shape_fn.x) = 3 /\ Len(shape_fn.y) = 3
    /\ RLt(shape_fn.x[2], shape_fn.x[1]) /\ RLt(shape_fn.x[2], shape_fn.x[3])
    /\ Len(feat_values) = 1
    /\ RLt(feat_values[1].num, shape_fn.x[2])
    /\ contribs[1] = shape_fn.y[2]
    /\ shape_fn.y[2] # shape_fn.y[1]

\* C4: with strictly increasing knots, evaluating at a value equal to a knot x
\* returns exactly that knot's y, also when the knot is closer to its
\* predecessor than the denominator floor.
C4_KnotExact ==
    (/\ pc = "evaluated"
     /\ IsNumericInput
     /\ Len(shape_fn.x) = Len(shape_fn.y)
     /\ StrictlyIncreasing(shape_fn.x))
    => \A i \in 1..Len(feat_values) : \A k \in 1..Len(shape_fn.x) :
           feat_values[i].num = shape_fn.x[k] => contribs[i] = shape_fn.y[k]

\* C5: a numeric feature with at least one (x, y) pair is resampled to exactly
\* num_points x-knots and y-values running from min(x) to max(x); a
\* categorical feature's shape function is returned unchanged.
C5_PointCount ==
    pc = "normalized" =>
       /\ (IsNumericInput /\ "f" \notin DOMAIN cat_info /\ PairCount >= 1)
          => /\ Len(normalized.x) = num_points
             /\ Len(normalized.y) = num_points
             /\ normalized.x[1] = MinOf(shape_fn.x, PairCount)
             /\ normalized.x[num_points] = MaxOf(shape_fn.x, PairCount)
       /\ ("f" \in DOMAIN cat_info \/ shape_fn.datatype = "categorical")
          => normalized = shape_fn

\* C5 witness: three knots given out of order resampled to another count.
C5_Witness ==
    /\ pc = "normalized"
    /\ IsNumericInput /\ "f" \notin DOMAIN cat_info
    /\ Len(shape_fn.x) = 3 /\ Len(shape_fn.y) = 3
    /\ RLt(shape_fn.x[3], shape_fn.x[1])
    /\ num_points = 4
    /\ Len(normalized.x) = 4
    /\ normalized.x[4] = shape_fn.x[1]

\* C6: resampling to N points a curve that a resample to N points produced
\* returns the same x-positions and the same y-values.
C6_Idempotent ==
    pc = "renormalized" => renormalized = normalized

----------------------------------------------------------------------------
(* Intercept calibration, lines 345-363 of build_train_response            *)

RAbs(a) == <<Abs(a[1]), a[2]>>
RNeg(a) == <<-a[1], a[2]>>

\* Floating point: a rational rounded to FloatBits significant bits, halves to
\* even; every +, - and / of the regression branch rounds its result so.
RECURSIVE FlPos(_, _)
FlPos(a, w) ==
    IF RLe(RInt(2^FloatBits), a) THEN FlPos(RDiv(a, RInt(2)), RMul(w, RInt(2)))
    ELSE IF RLt(a, RInt(2^(FloatBits - 1)))
    THEN FlPos(RMul(a, RInt(2)), RDiv(w, RInt(2)))
    ELSE RMul(RInt(RoundHalfEven(a)), w)

Fl(q) ==
    IF q[1] = 0 THEN Zero
    ELSE IF q[1] < 0 THEN RNeg(FlPos(RAbs(q), One))
    ELSE FlPos(q, One)

FAdd(a, b) == Fl(RAdd(a, b))
FSub(a, b) == Fl(RSub(a, b))
FDiv(a, b) == Fl(RDiv(a, b))

\* np.sum of a short array: a running sum from 0
RECURSIVE FSum(_)
FSum(arr) ==
    IF arr = <<>> THEN Zero
    ELSE FAdd(FSum(SubSeq(arr, 1, Len(arr) - 1)), arr[Len(arr)])

\* np.mean
FMean(arr) == FDiv(FSum(arr), RInt(Len(arr)))

\* np.mean(y_train), forgetting to take the contributions off
RegressionIntercept_TargetMean(y, total) ==
    IF Len(y) > 0 THEN FMean(y) ELSE Zero

\* line 361
RegressionIntercept(y, total) ==
    IF Len(y) > 0 THEN FMean([i \in 1..Len(y) |-> FSub(y[i], total[i])]) ELSE Zero

\* line 362
RegressionPreds(total, intercept) ==
    [i \in 1..Len(total) |-> FAdd(total[i], intercept)]

\* Fixed point for the classification branch: probabilities and exp(-z) are
\* integers counting 2^-14.
ExpScale == 2^14

FxMul(a, b) == (a * b + ExpScale \div 2) \div ExpScale

\* exp(-3 / 2^i) in fixed point, i = 0..13
ExpTable ==
    <<816, 3656, 7739, 11261, 13583, 14918, 15634, 16004, 16193, 16288,
      16336, 16360, 16372, 16378>>

\* np.exp(-z) for z >= 0 a multiple of 3/2^13: the product of the table
\* entries that add up to z
RECURSIVE ExpNeg(_, _)
ExpNeg(z, i) ==
    IF z[1] = 0 \/ i >= Len(ExpTable) THEN ExpScale
    ELSE IF RLe(<<3, 2^i>>, z)
    THEN FxMul(ExpTable[i + 1], ExpNeg(RSub(z, Rat(3, 2^i)), i))
    ELSE ExpNeg(z, i + 1)

\* 1 / (1 + np.exp(-z))
Sigmoid(z) ==
    IF z[1] >= 0
    THEN LET e == ExpNeg(z, 0)
         IN  (ExpScale * ExpScale + (ExpScale + e) \div 2) \div (ExpScale + e)
    ELSE LET e == ExpNeg(RNeg(z), 0)
         IN  (ExpScale * e + (ExpScale + e) \div 2) \div (ExpScale + e)

\* probs = 1 / (1 + np.exp(-(total_train + mid)))
Probs(total, mid) == [i \in 1..Len(total) |-> Sigmoid(RAdd(total[i], mid))]

RECURSIVE SumInts(_)
SumInts(arr) == IF arr = <<>> THEN 0 ELSE Head(arr) + SumInts(Tail(arr))

\* float(np.mean(probs)), as a rational
MeanProb(total, mid) == Rat(SumInts(Probs(total, mid)), Len(total) * ExpScale)

RECURSIVE RSum(_)
RSum(arr) == IF arr = <<>> THEN Zero ELSE RAdd(Head(arr), RSum(Tail(arr)))

ClampLo == <<1, 10000>>
ClampHi == <<9999, 10000>>

\* lines 347-348
TargetMean(y) ==
    LET m == IF Len(y) > 0 THEN RDiv(RSum(y), RInt(Len(y))) ELSE Zero
    IN  IF RLt(m, ClampLo) THEN ClampLo
        ELSE IF RLt(ClampHi, m) THEN ClampHi ELSE m

BracketLow == -12
BracketHigh == 12

\* the bisection with the halves swapped: the bracket moves away from the root
RECURSIVE Bisect_Swapped(_, _, _, _, _)
Bisect_Swapped(low, high, iters, total, target) ==
    IF iters = 0 THEN RDiv(RAdd(low, high), RInt(2))
    ELSE LET mid == RDiv(RAdd(low, high), RInt(2))
         IN  IF RLt(MeanProb(total, mid), target)
             THEN Bisect_Swapped(low, mid, iters - 1, total, target)
             ELSE Bisect_Swapped(mid, high, iters - 1, total, target)

\* lines 350-357: `iters` halvings of [low, high], then the midpoint
RECURSIVE Bisect(_, _, _, _, _)
Bisect(low, high, iters, total, target) ==
    IF iters = 0 THEN RDiv(RAdd(low, high), RInt(2))
    ELSE LET mid == RDiv(RAdd(low, high), RInt(2))
         IN  IF RLt(MeanProb(total, mid), target)
             THEN Bisect(mid, high, iters - 1, total, target)
             ELSE Bisect(low, mid, iters - 1, total, target)

ClassificationIntercept(y, total) ==
    Bisect(RInt(BracketLow), RInt(BracketHigh), BisectIters, total, TargetMean(y))

----------------------------------------------------------------------------
(* Specification of the calibration: targets and summed contributions are  *)
(* drawn, then the intercept and the train predictions are computed.       *)

\* floating-point targets and contributions of the regression task
RegressionTargets == {Rat(n, 4) : n \in {0, 3, 10}}
RegressionTotals == {Rat(n, 4) : n \in {-6, 0, 5}}
\* summed contributions of the classification task (multiples of 3/4)
ClassTotals == {Rat(3 * n, 4) : n \in {0, 2, 32}}

SeqsOfLen(S, n) == [1..n -> S]

CalibInit ==
    /\ pc = "totals"
    /\ cat_info = NoCatInfo
    /\ shape_fn = EmptyShape /\ feat_values = <<>> /\ num_points = 0
    /\ contribs = None /\ normalized = None /\ renormalized = None
    /\ \E n \in 1..MaxRows :
          \/ /\ task_type = "regression"
             /\ y_train \in SeqsOfLen(RegressionTargets, n)
             /\ total_train \in SeqsOfLen(RegressionTotals, n)
          \/ /\ task_type = "classification"
             /\ y_train \in SeqsOfLen({Zero, One}, n)
             /\ total_train \in SeqsOfLen(ClassTotals, n)
    /\ intercept_val = Zero
    /\ preds_train = <<>>
    /\ edited_partials = <<>> /\ updates = NoCatInfo /\ eval_key = None
    /\ request = None /\ model = None /\ calls = <<>>
    /\ outcome = None /\ response = None
    /\ disk = NoDisk /\ threads = <<>> /\ completed = <<>>

CalibrateRegression ==
    /\ pc = "totals"
    /\ task_type = "regression"
    /\ intercept_val' = RegressionIntercept(y_train, total_train)
    /\ preds_train' = RegressionPreds(total_train, intercept_val')
    /\ pc' = "calibrated"
    /\ UNCHANGED <<cat_info, storeVars, curveVars, editVars, reqVars, task_type, y_train, total_train>>

\* preds_train holds the probabilities as fixed-point integers
CalibrateClassification ==
    /\ pc = "totals"
    /\ task_type = "classification"
    /\ intercept_val' = ClassificationIntercept(y_train, total_train)
    /\ preds_train' = Probs(total_train, intercept_val')
    /\ pc' = "calibrated"
    /\ UNCHANGED <<cat_info, storeVars, curveVars, editVars, reqVars, task_type, y_train, total_train>>

CalibNext == CalibrateRegression \/ CalibrateClassification

SpecCalib == CalibInit /\ [][CalibNext]_vars

----------------------------------------------------------------------------
(* Properties of the calibration *)

RECURSIVE MaxMagnitude(_, _)
MaxMagnitude(y, total) ==
    IF y = <<>> THEN Zero
    ELSE RMax(RAdd(RAbs(Head(y)), RAbs(Head(total))),
              MaxMagnitude(Tail(y), Tail(total)))

\* C1 as claimed: after the regression calibration of a non-empty train
\* split, the mean of the train predictions equals the mean of the train
\* targets.
C1_MeanEqual ==
    (pc = "calibrated" /\ task_type = "regression")
    => FMean(preds_train) = FMean(y_train)

\* C1 as amended: the two means agree up to rounding error: they differ by at
\* most 4 (n + 1) u max_i(|y_i| + |total_i|), u = 2^-FloatBits the unit
\* roundoff and n the number of train rows.
C1_MeanClose ==
    (pc = "calibrated" /\ task_type = "regression")
    => RLe(RMul(RInt(2^FloatBits), RAbs(RSub(FMean(preds_train), FMean(y_train)))),
           RMul(RInt(4 * (Len(y_train) + 1)), MaxMagnitude(y_train, total_train)))

\* C1 witness: a calibrated regression over three rows with contributions
\* that differ, where the two means are not equal.
C1_Witness ==
    /\ pc = "calibrated" /\ task_type = "regression"
    /\ Len(y_train) = 3
    /\ total_train[1] # total_train[2]
    /\ FMean(preds_train) # FMean(y_train)

BisectTolerance == Rat(BracketHigh - BracketLow, 2^BisectIters)

CalibrationError ==
    RAbs(RSub(MeanProb(total_train, intercept_val), TargetMean(y_train)))

\* the clamped target mean is attained inside the intercept bracket
RootInBracket ==
    /\ RLe(MeanProb(total_train, RInt(BracketLow)), TargetMean(y_train))
    /\ RLe(TargetMean(y_train), MeanProb(total_train, RInt(BracketHigh)))

----------------------------------------------------------------------------
(* _apply_edited_partials_to_interactive_model: the updates built from the *)
(* edited Partials, lines 179-207.  A Partial is a record of its key (""   *)
(* when missing), categories (<<>> when missing), editableX and editableY. *)

\* values put in front of the padding instead of behind it
PadTruncate_Front(y_vals, n) ==
    SubSeq([i \in 1..n |-> Zero] \o y_vals, 1, n)

\* (y_vals + [0.0] * n)[:n]
PadTruncate(y_vals, n) ==
    SubSeq(y_vals \o [i \in 1..n |-> Zero], 1, n)

\* lines 186-195
CategoricalUpdate(partial, cats) ==
    LET categories == IF partial.categories # <<>> THEN partial.categories
                      ELSE cats[partial.key]
        y_vals == partial.editableY
    IN  [datatype |-> "categorical",
         x |-> categories,
         y |-> IF categories # <<>> /\ Len(y_vals) # Len(categories)
               THEN PadTruncate(y_vals, Len(categories)) ELSE y_vals]

\* the axes taken as the edit gives them
NumericUpdate_AsGiven(partial) ==
    [datatype |-> "numerical", x |-> partial.editableX, y |-> partial.editableY]

\* lines 201-207, for non-empty axes
NumericUpdate(partial) ==
    LET pair_count == Min(Len(partial.editableX), Len(partial.editableY))
        pairs == SortPairs(Zip(SubSeq(partial.editableX, 1, pair_count),
                               SubSeq(partial.editableY, 1, pair_count)))
    IN  [datatype |-> "numerical",
         x |-> [i \in 1..pair_count |-> pairs[i][1]],
         y |-> [i \in 1..pair_count |-> pairs[i][2]]]

\* an edit that produces no update: no key, or a numeric edit with an empty axis
SkipsEdit(partial, cats) ==
    \/ partial.key = ""
    \/ /\ partial.key \notin DOMAIN cats
       /\ (partial.editableX = <<>> \/ partial.editableY = <<>>)

\* updates[key] = ...: a later edit of the same key replaces an earlier one
SetKey(table, key, shape) ==
    [k \in DOMAIN table \cup {key} |-> IF k = key THEN shape ELSE table[k]]

\* lines 179-207: the loop over the edited partials
RECURSIVE BuildUpdates(_, _)
BuildUpdates(partials, cats) ==
    IF partials = <<>> THEN NoCatInfo
    ELSE LET before  == BuildUpdates(SubSeq(partials, 1, Len(partials) - 1), cats)
             partial == partials[Len(partials)]
         IN  IF SkipsEdit(partial, cats) THEN before
             ELSE IF partial.key \in DOMAIN cats
             THEN SetKey(before, partial.key, CategoricalUpdate(partial, cats))
             ELSE SetKey(before, partial.key, NumericUpdate(partial))

----------------------------------------------------------------------------
(* Specification of the edits: a list of edited Partials is drawn, the     *)
(* updates are built, and one update is evaluated on a row.                *)

NoKeyEdit ==
    [key |-> "", categories |-> <<>>, editableX |-> <<RInt(0)>>, editableY |-> <<RInt(4)>>]

NumericEdits ==
    {[key |-> "n", categories |-> <<>>, editableX |-> ax[1], editableY |-> ax[2]] :
        ax \in {<<<<RInt(3), RInt(0)>>, <<RInt(4), RInt(6)>>>>,
                <<<<RInt(0), RInt(3)>>, <<RInt(4)>>>>,
                <<<<>>, <<RInt(4)>>>>,
                <<<<RInt(0)>>, <<>>>>}}

CategoricalEdits ==
    {[key |-> "c", categories |-> cs, editableX |-> <<>>, editableY |-> ys] :
        cs \in {<<>>, <<"b">>, <<"a", "b">>, <<"b", "a">>, <<"a", "a">>},
        ys \in {<<>>, <<RInt(4)>>, <<RInt(4), RInt(6)>>, <<RInt(6), RInt(4)>>,
                <<RInt(4), RInt(6), RInt(6)>>}}

EditInputs == NumericEdits \cup CategoricalEdits \cup {NoKeyEdit}

EditInit ==
    /\ pc = "edits"
    /\ cat_info \in {[k \in {"c"} |-> <<"a", "b">>], [k \in {"c"} |-> <<"a">>]}
    /\ \E n \in 1..MaxEdits :
          edited_partials \in SeqsOfLen(EditInputs, n)
    /\ updates = NoCatInfo
    /\ eval_key = None
    /\ shape_fn = EmptyShape /\ feat_values = <<>> /\ num_points = 0
    /\ contribs = None /\ normalized = None /\ renormalized = None
    /\ task_type = None /\ y_train = <<>> /\ total_train = <<>>
    /\ intercept_val = Zero /\ preds_train = <<>>
    /\ request = None /\ model = None /\ calls = <<>>
    /\ outcome = None /\ response = None
    /\ disk = NoDisk /\ threads = <<>> /\ completed = <<>>

BuildEdits ==
    /\ pc = "edits"
    /\ updates' = BuildUpdates(edited_partials, cat_info)
    /\ pc' = "built"
    /\ UNCHANGED <<cat_info, storeVars, curveVars, calibVars, reqVars, edited_partials, eval_key>>

\* evaluate_contribs(updates[key], [row], cat_info.get(key)) on a row holding
\* a raw string (a categorical key) or a number (a numeric key)
EvaluateUpdate ==
    /\ pc = "built"
    /\ \E key \in DOMAIN updates :
          \E v \in IF key \in DOMAIN cat_info
                   THEN {Str(l) : l \in Labels \cup {"zz"}}
                   ELSE {Num(RInt(q)) : q \in QVals} :
             /\ eval_key' = key
             /\ shape_fn' = updates[key]
             /\ feat_values' = <<v>>
             /\ contribs' = evaluate_contribs(updates[key], <<v>>, CatsOf(key))
    /\ pc' = "edit_evaluated"
    /\ UNCHANGED <<cat_info, storeVars, num_points, normalized, renormalized, calibVars,
                   reqVars, edited_partials, updates>>

EditNext == BuildEdits \/ EvaluateUpdate

SpecEdit == EditInit /\ [][EditNext]_vars

----------------------------------------------------------------------------
(* Properties of the edits *)

\* the edits of `key` that produce an update
EditsOf(key) ==
    {i \in 1..Len(edited_partials) :
        edited_partials[i].key = key /\ ~SkipsEdit(edited_partials[i], cat_info)}

\* the category list an edit of a categorical key speaks about
EditCategories(partial) ==
    IF partial.categories # <<>> THEN partial.categories ELSE cat_info[partial.key]

\* C7: for a categorical feature, an edited Partial that sets the
\* contribution of category c to v (c is listed at one position i of the
\* edit's category list and v = editableY[i]; the Partial is the one edit of
\* its key) builds an update that evaluate_contribs maps, on a row whose raw
\* string value is c, to exactly v.
C7_CategoricalRoundTrip ==
    (pc = "edit_evaluated" /\ eval_key \in DOMAIN cat_info)
    => \A e \in EditsOf(eval_key) :
          LET partial == edited_partials[e]
              cats == EditCategories(partial)
          IN  \A i \in 1..Len(cats) :
                 (/\ EditsOf(eval_key) = {e}
                  /\ i <= Len(partial.editableY)
                  /\ \A j \in 1..Len(cats) : cats[j] = cats[i] => j = i
                  /\ feat_values[1] = Str(cats[i]))
                 => contribs[1] = partial.editableY[i]

\* C7 witness: an edit with fewer values than categories, evaluated on a row
\* of the second category, returns the edited value.
C7_Witness ==
    /\ pc = "edit_evaluated" /\ eval_key = "c"
    /\ Len(edited_partials) = 2
    /\ edited_partials[1].key = "n"
    /\ edited_partials[2].key = "c"
    /\ edited_partials[2].categories = <<"b", "a">>
    /\ edited_partials[2].editableY = <<RInt(4), RInt(6)>>
    /\ feat_values = <<Str("a")>>
    /\ contribs = <<RInt(6)>>

\* C12: for a categorical shape function, a value that is not a string is
\* an index into the categories list; an index outside 0..len(categories)-1
\* contributes 0 and raises nothing, an index inside resolves to
\* categories[index].
C12_IndexResolution ==
    (/\ pc \in {"evaluated", "raised"}
     /\ shape_fn # EmptyShape
     /\ shape_fn.datatype = "categorical")
    => IF pc = "raised" THEN FALSE
       ELSE \A i \in 1..Len(feat_values) :
               ~IsStr(feat_values[i])
               => LET idx == RoundHalfEven(feat_values[i].num)
                      categories == CatsOf("f")
                  IN  contribs[i] =
                         IF 0 <= idx /\ idx < Len(categories)
                         THEN CatLookup(shape_fn.x, shape_fn.y, categories[idx + 1])
                         ELSE Zero

\* the last edit of `key` that produces an update
LastEditOf(key) == CHOOSE e \in EditsOf(key) : \A f \in EditsOf(key) : f <= e

\* s is t with its entries rearranged
IsRearranged(s, t) ==
    /\ Len(s) = Len(t)
    /\ \E f \in [1..Len(s) -> 1..Len(s)] :
          /\ \A i, j \in 1..Len(s) : f[i] = f[j] => i = j
          /\ \A i \in 1..Len(s) : s[i] = t[f[i]]

\* C14: every update built from the edited Partials has len(x) = len(y);
\* it comes from an edit that is not a numeric edit with an empty axis; for
\* a categorical key x is the category list and y the edit's values padded
\* with 0 or truncated to its length; for a numeric key x is non-decreasing
\* and the (x, y) pairs are the edit's pairs rearranged.
C14_WellFormedUpdates ==
    (pc \in {"built", "edit_evaluated"})
    => \A key \in DOMAIN updates :
          /\ Len(updates[key].x) = Len(updates[key].y)
          /\ EditsOf(key) # {}
          /\ LET partial == edited_partials[LastEditOf(key)]
                 u == updates[key]
             IN  IF key \in DOMAIN cat_info
                 THEN /\ u.x = EditCategories(partial)
                      /\ \A i \in 1..Len(u.x) :
                            u.y[i] = IF i <= Len(partial.editableY)
                                     THEN partial.editableY[i] ELSE Zero
                 ELSE /\ partial.editableX # <<>> /\ partial.editableY # <<>>
                      /\ \A i \in 1..(Len(u.x) - 1) : RLe(u.x[i], u.x[i + 1])
                      /\ LET n == Min(Len(partial.editableX), Len(partial.editableY))
                         IN  IsRearranged(Zip(u.x, u.y),
                                          Zip(SubSeq(partial.editableX, 1, n),
                                              SubSeq(partial.editableY, 1, n)))

\* C14 witness: a numeric edit given out of order and a categorical edit
\* with fewer values than categories both produced an update.
C14_Witness ==
    /\ pc = "built"
    /\ DOMAIN updates = {"n", "c"}
    /\ edited_partials[LastEditOf("n")].editableX = <<RInt(3), RInt(0)>>
    /\ updates["n"].x = <<RInt(0), RInt(3)>>
    /\ updates["n"].y = <<RInt(6), RInt(4)>>
    /\ edited_partials[LastEditOf("c")].editableY = <<RInt(4)>>
    /\ updates["c"].x = <<"a", "b">>
    /\ updates["c"].y = <<RInt(4), RInt(0)>>

----------------------------------------------------------------------------
(* build_train_response, serving /train and /refit.  The external model    *)
(* (IGANN / IGANN_interactive) is a record of what the handler reads and   *)
(* writes on it; what its own methods do is not in the source.             *)

SupportedDatasets == {"bike_hourly", "adult_income", "breast_cancer"}

\* X_proc.columns: a numeric column and a categorical column
feature_keys == <<"n", "c">>

\* TrainRequest defaults of n_estimators and early_stopping
DefaultEstimators == 100
DefaultEarlyStopping == 50

PointsFloor == 2
PointsCap == 250
RefitEstimatorsCap == 500
RefitPatienceCap == 200

\* line 226: max(2, min(250, request.points or 250))
ClampPoints(points) ==
    Max(PointsFloor, Min(PointsCap, IF points = 0 THEN PointsCap ELSE points))

\* line 223
NormalizedModelType(model_type) ==
    IF model_type \in {"igann", "igann_interactive"} THEN model_type ELSE "igann"

UnbuiltModel ==
    [cls |-> "none", GAM |-> FALSE, feature_dict |-> NoCatInfo,
     locked_feature_names |-> <<>>,
     n_estimators |-> 0, early_stopping |-> 0]

FittedNumeric ==
    [datatype |-> "numerical", x |-> <<RInt(0), RInt(3)>>, y |-> <<RInt(1), RInt(-2)>>]

FittedCategorical ==
    [datatype |-> "categorical", x |-> <<"a", "b">>, y |-> <<RInt(1), RInt(0)>>]

\* the shape-function table igann.fit leaves on the model: one entry per
\* feature the fitter kept
FittedTable(kept) ==
    [k \in kept |-> IF k = "n" THEN FittedNumeric ELSE FittedCategorical]

FittedKeySets == {{}, {"n"}, {"c"}, {"n", "c"}}

\* GAM.update_feature_dict(updates): the named entries are replaced
update_feature_dict(table, upd) ==
    [k \in DOMAIN table \cup DOMAIN upd |->
        IF k \in DOMAIN upd THEN upd[k] ELSE table[k]]

SeqToSet(s) == {s[i] : i \in 1..Len(s)}

\* the lock list is left as the model has it
AssignLocks_Skip(locked_features, current) == current

\* lines 274-275
AssignLocks(locked_features, current) ==
    IF locked_features # <<>> THEN locked_features ELSE current

\* a further boosting round moves every value of a shape function
Refitted(shape) ==
    [shape EXCEPT !.y = [i \in DOMAIN shape.y |-> RAdd(shape.y[i], One)]]

\* continue_fit: a feature named in the lock list is not fitted; of the
\* others, those in `moved` are
ContinueFitResult(table, moved) ==
    [k \in DOMAIN table |-> IF k \in moved THEN Refitted(table[k]) ELSE table[k]]

Unlocked(table, locked) == DOMAIN table \ SeqToSet(locked)

\* center_shape_functions: every shape function is shifted by a constant
Centered(table) ==
    [k \in DOMAIN table |->
        [table[k] EXCEPT !.y = [i \in DOMAIN table[k].y |->
                                   RSub(table[k].y[i], One)]]]

\* lines 372-409: the Partial of one feature
BuildPartial(key, shape, cats) ==
    IF key \in DOMAIN cats
    THEN LET categories == cats[key]
         IN  [key |-> key, categories |-> categories,
              editableX |-> [i \in 1..Len(categories) |-> RInt(i - 1)],
              editableY |-> [i \in 1..Len(categories) |->
                                CatLookup(shape.x, shape.y, categories[i])]]
    ELSE [key |-> key, categories |-> <<>>,
          editableX |-> shape.x, editableY |-> shape.y]

\* a Partial only for the features whose shape function has knots
RECURSIVE BuildPartials_Present(_, _, _)
BuildPartials_Present(keys, shape_functions, cats) ==
    IF keys = <<>> THEN <<>>
    ELSE LET key == keys[Len(keys)]
             before == BuildPartials_Present(SubSeq(keys, 1, Len(keys) - 1),
                                             shape_functions, cats)
         IN  IF shape_functions[key].x = <<>> THEN before
             ELSE Append(before, BuildPartial(key, shape_functions[key], cats))

\* lines 371-409: partials = []; for key in feature_keys: partials.append(...)
RECURSIVE BuildPartials(_, _, _)
BuildPartials(keys, shape_functions, cats) ==
    IF keys = <<>> THEN <<>>
    ELSE Append(BuildPartials(SubSeq(keys, 1, Len(keys) - 1), shape_functions, cats),
                BuildPartial(keys[Len(keys)], shape_functions[keys[Len(keys)]], cats))

\* lines 335-343: the per-row sum of the features' contributions
TotalTrain(shape_functions, rows, cats) ==
    LET per_key == [i \in 1..Len(feature_keys) |->
                       LET key == feature_keys[i]
                       IN  evaluate_contribs(shape_functions[key], rows[key],
                                             IF key \in DOMAIN cats
                                             THEN cats[key] ELSE <<>>)]
    IN  [r \in 1..Len(rows[feature_keys[1]]) |-> FSum([i \in 1..Len(feature_keys) |-> per_key[i][r]])]

----------------------------------------------------------------------------
(* Specification of a request: a /train or /refit request is drawn and     *)
(* served step by step.                                                    *)

RequestCatInfo == [k \in {"c"} |-> <<"a", "b">>]

\* features_train and y_train of the split
TrainRows ==
    [k \in {"n", "c"} |-> IF k = "n" THEN <<Num(RInt(0)), Num(RInt(2))>>
                          ELSE <<Str("a"), Str("b")>>]

TrainTargets == <<RInt(1), RInt(0)>>

RequestEdits ==
    {[key |-> "n", categories |-> <<>>,
      editableX |-> <<RInt(3), RInt(0)>>, editableY |-> <<RInt(4), RInt(6)>>],
     [key |-> "n", categories |-> <<>>,
      editableX |-> <<>>, editableY |-> <<RInt(4)>>],
     [key |-> "c", categories |-> <<>>,
      editableX |-> <<>>, editableY |-> <<RInt(4)>>]}

Datasets == {"bike_hourly", "mnist"}
ModelTypes == {"igann", "igann_interactive", "xgboost"}
PointsInputs == {1, 3}
LockInputs == {<<>>, <<"n">>, <<"n", "c">>}
RefitEstimatorInputs == {0, 50, 1000}
RefitPatienceInputs == {<<>>, <<0>>, <<300>>}

TrainRequests ==
    [op : {"train"}, dataset : Datasets, model_type : ModelTypes,
     center_shapes : BOOLEAN, points : PointsInputs,
     locked_features : {<<>>}, refit_estimators : {0},
     refit_early_stopping : {<<>>}]

RefitRequests ==
    [op : {"refit"}, dataset : Datasets, model_type : ModelTypes,
     center_shapes : BOOLEAN, points : PointsInputs,
     locked_features : LockInputs, refit_estimators : RefitEstimatorInputs,
     refit_early_stopping : RefitPatienceInputs]

Init ==
    /\ pc = "validate"
    /\ cat_info = RequestCatInfo
    /\ \/ /\ request \in TrainRequests
          /\ edited_partials = <<>>
       \/ /\ request \in RefitRequests
          /\ \E n \in 0..MaxEdits : edited_partials \in SeqsOfLen(RequestEdits, n)
    /\ model = UnbuiltModel
    /\ calls = <<>>
    /\ outcome = "pending"
    /\ response = None
    /\ disk = NoDisk /\ threads = <<>> /\ completed = <<>>
    /\ updates = NoCatInfo /\ eval_key = None
    /\ shape_fn = EmptyShape /\ feat_values = <<>> /\ num_points = 0
    /\ contribs = None /\ normalized = None /\ renormalized = None
    /\ task_type = "regression" /\ y_train = TrainTargets /\ total_train = <<>>
    /\ intercept_val = Zero /\ preds_train = <<>>

model_type == NormalizedModelType(request.model_type)

Raise(status) ==
    /\ outcome' = status
    /\ pc' = "done"

\* lines 221-226
Validate ==
    /\ pc = "validate"
    /\ IF request.dataset \notin SupportedDatasets
       THEN Raise("400") /\ UNCHANGED num_points
       ELSE /\ num_points' = ClampPoints(request.points)
            /\ pc' = "fit"
            /\ UNCHANGED outcome
    /\ UNCHANGED <<cat_info, storeVars, shape_fn, feat_values, contribs, normalized,
                   renormalized, calibVars, editVars, request, model, calls,
                   response>>

\* lines 251-265
Fit ==
    /\ pc = "fit"
    /\ \E kept \in FittedKeySets :
       \E gam \in IF model_type = "igann_interactive" THEN BOOLEAN ELSE {FALSE} :
          model' = [cls |-> IF model_type = "igann_interactive"
                            THEN "IGANN_interactive" ELSE "IGANN",
                    GAM |-> gam,
                    feature_dict |-> FittedTable(kept),
                    locked_feature_names |-> <<>>,
                    n_estimators |-> DefaultEstimators,
                    early_stopping |-> DefaultEarlyStopping]
    /\ calls' = Append(calls, "fit")
    /\ pc' = "edits"
    /\ UNCHANGED <<cat_info, storeVars, curveVars, calibVars, editVars, request, outcome,
                   response>>

\* lines 267-275, with _apply_edited_partials_to_interactive_model
ApplyEdits ==
    /\ pc = "edits"
    /\ IF edited_partials = <<>>
       THEN /\ pc' = "center"
            /\ UNCHANGED <<outcome, updates, model, calls>>
       ELSE IF model_type # "igann_interactive" \/ ~model.GAM
       THEN Raise("400") /\ UNCHANGED <<updates, model, calls>>
       ELSE /\ updates' = BuildUpdates(edited_partials, cat_info)
            /\ model' = [model EXCEPT
                  !.feature_dict =
                      IF DOMAIN updates' # {}
                      THEN update_feature_dict(model.feature_dict, updates')
                      ELSE @,
                  !.locked_feature_names =
                      AssignLocks(request.locked_features, @)]
            /\ calls' = IF DOMAIN updates' # {}
                        THEN Append(calls, "update_feature_dict") ELSE calls
            /\ pc' = "continue"
            /\ UNCHANGED outcome
    /\ UNCHANGED <<cat_info, storeVars, curveVars, calibVars, edited_partials, eval_key,
                   request, response>>

\* lines 277-282
ContinueFit ==
    /\ pc = "continue"
    /\ IF request.refit_estimators > 0
       THEN /\ \E moved \in SUBSET Unlocked(model.feature_dict,
                                            model.locked_feature_names) :
                  model' = [model EXCEPT
                      !.n_estimators =
                          Max(1, Min(RefitEstimatorsCap, request.refit_estimators)),
                      !.early_stopping =
                          IF request.refit_early_stopping # <<>>
                          THEN Max(1, Min(RefitPatienceCap,
                                          request.refit_early_stopping[1]))
                          ELSE @,
                      !.feature_dict = ContinueFitResult(@, moved)]
            /\ calls' = Append(calls, "continue_fit")
       ELSE UNCHANGED <<model, calls>>
    /\ pc' = "center"
    /\ UNCHANGED <<cat_info, storeVars, curveVars, calibVars, editVars, request, outcome,
                   response>>

\* lines 284-290
Center ==
    /\ pc = "center"
    /\ IF ~request.center_shapes
       THEN /\ pc' = "respond"
            /\ UNCHANGED <<outcome, model, calls>>
       ELSE IF model_type # "igann_interactive"
       THEN Raise("400") /\ UNCHANGED <<model, calls>>
       ELSE /\ model' = [model EXCEPT !.feature_dict = Centered(@)]
            /\ calls' = Append(calls, "center_shape_functions")
            /\ pc' = "respond"
            /\ UNCHANGED outcome
    /\ UNCHANGED <<cat_info, storeVars, curveVars, calibVars, editVars, request, response>>

\* lines 319-434, and lines 447-449 for /refit
Respond ==
    /\ pc = "respond"
    /\ IF DOMAIN model.feature_dict = {}
       THEN /\ Raise("500")
            /\ UNCHANGED <<normalized, total_train, intercept_val, preds_train,
                           response>>
       ELSE /\ normalized' = normalize_numeric_shape_points(
                                 model.feature_dict, feature_keys, cat_info,
                                 num_points)
            /\ total_train' = TotalTrain(normalized', TrainRows, cat_info)
            /\ intercept_val' = RegressionIntercept(y_train, total_train')
            /\ preds_train' = RegressionPreds(total_train', intercept_val')
            /\ response' =
                  [model_type |-> model_type,
                   points |-> num_points,
                   partials |-> BuildPartials(feature_keys, normalized', cat_info),
                   point_counts |-> [k \in SeqToSet(feature_keys) |->
                                        Len(normalized'[k].x)],
                   refit_from_edits |-> request.op = "refit",
                   locked_features |-> request.locked_features,
                   center_shapes |-> request.center_shapes]
            /\ outcome' = "ok"
            /\ pc' = "done"
    /\ UNCHANGED <<cat_info, storeVars, shape_fn, feat_values, num_points, contribs,
                   renormalized, task_type, y_train, editVars, request, model,
                   calls>>

Next == Validate \/ Fit \/ ApplyEdits \/ ContinueFit \/ Center \/ Respond

Spec == Init /\ [][Next]_vars

----------------------------------------------------------------------------
(* Properties of a request *)

Called(name) == \E i \in 1..Len(calls) : calls[i] = name

\* C8: every refit request (any partials list, an empty one included) whose
\* model is not the incremental variant with a mutable shape-function table
\* (model_type other than igann_interactive, or no GAM wrapper) ends in the
\* 400 outcome, never in a successful response.
C8_RefitRejected ==
    (/\ pc = "done"
     /\ request.op = "refit"
     /\ (model_type # "igann_interactive" \/ ~model.GAM))
    => outcome = "400"

\* a configuration error that the request alone shows
ConfigurationError ==
    \/ request.dataset \notin SupportedDatasets
    \/ edited_partials # <<>> /\ model_type # "igann_interactive"
    \/ request.center_shapes /\ model_type # "igann_interactive"

\* C9: a request that ends in the 400 outcome for a configuration error
\* detectable from the request alone has made no call of the fitter's fit.
C9_ErrorBeforeFit ==
    (pc = "done" /\ outcome = "400" /\ ConfigurationError) => ~Called("fit")

\* C10: right after the edits were applied and continue_fit has run (the
\* external model leaving the features of its lock list unfitted), the
\* model's shape function of every key that is both edited and listed in
\* locked_features equals the update built from the edit.
C10_LockedPreserved ==
    (pc = "center" /\ edited_partials # <<>>)
    => \A key \in DOMAIN updates \cap SeqToSet(request.locked_features) :
          model.feature_dict[key] = updates[key]

\* C10 witness: continue_fit has run with "n" edited and locked; it moved
\* the unlocked "c" and left "n" at the sorted edit.
C10_Witness ==
    /\ pc = "center"
    /\ Len(calls) = 3 /\ calls[3] = "continue_fit"
    /\ request.locked_features = <<"n">>
    /\ "n" \in DOMAIN updates
    /\ DOMAIN model.feature_dict = {"n", "c"}
    /\ model.feature_dict["c"] = Refitted(FittedCategorical)
    /\ model.feature_dict["n"].x = <<RInt(0), RInt(3)>>
    /\ model.feature_dict["n"].y = <<RInt(6), RInt(4)>>

\* C11: every successful train or refit response holds exactly one Partial
\* per feature column, the i-th Partial carrying the i-th feature key,
\* whichever features are categorical or lack a shape function and in
\* whatever order the edits came.
C11_PartialOrder ==
    (pc = "done" /\ outcome = "ok")
    => /\ Len(response.partials) = Len(feature_keys)
       /\ \A i \in 1..Len(feature_keys) :
             response.partials[i].key = feature_keys[i]

\* C11 witness: a refit whose edits came as "c" then "n" on a model fitted
\* without a shape function for "c" answers with the Partials of "n", "c".
C11_Witness ==
    /\ pc = "done" /\ outcome = "ok"
    /\ request.op = "refit"
    /\ Len(edited_partials) = 2
    /\ edited_partials[1].key = "c"
    /\ edited_partials[2].key = "n"
    /\ edited_partials[2].editableX # <<>>
    /\ request.refit_estimators = 0
    /\ ~Called("center_shape_functions")
    /\ Len(response.partials) = 2
    /\ response.partials[1].key = "n"
    /\ response.partials[2].key = "c"
    /\ response.partials[2].editableY = <<RInt(4), RInt(0)>>

\* smallest and largest observed value of a numeric training column
ObservedMin(key) ==
    LET col == TrainRows[key]
    IN  CHOOSE v \in {col[i].num : i \in 1..Len(col)} :
           \A j \in 1..Len(col) : RLe(v, col[j].num)

ObservedMax(key) ==
    LET col == TrainRows[key]
    IN  CHOOSE v \in {col[i].num : i \in 1..Len(col)} :
           \A j \in 1..Len(col) : RLe(col[j].num, v)

\* the uniform grid over the observed range, widened by 1 on each side when
\* the range is a single value
ObservedGrid(key, points) ==
    IF ObservedMin(key) = ObservedMax(key)
    THEN linspace(RSub(ObservedMin(key), One), RAdd(ObservedMax(key), One), points)
    ELSE linspace(ObservedMin(key), ObservedMax(key), points)

\* C13: in a successful response, the Partial of every numeric feature whose
\* shape function is missing or empty has as editable axis the uniform grid
\* of num_points knots over the feature's observed range, with all-zero
\* editable values.
C13_NumericFallback ==
    (pc = "done" /\ outcome = "ok")
    => \A i \in 1..Len(feature_keys) :
          LET key == feature_keys[i]
          IN  (key \notin DOMAIN cat_info /\ normalized[key].x = <<>>)
              => /\ response.partials[i].editableX = ObservedGrid(key, num_points)
                 /\ response.partials[i].editableY =
                       [j \in 1..num_points |-> Zero]

CallsOf(name) == {i \in 1..Len(calls) : calls[i] = name}

\* the refit block of a refit request on the incremental model is behind
Refitting ==
    /\ request.op = "refit"
    /\ pc \in {"center", "respond", "done"}
    /\ model.cls = "IGANN_interactive" /\ model.GAM

\* continue_fit ran once, after fit and after the one batch of updates, with
\* the clamped round count and patience
IncrementalStep ==
    IF request.refit_estimators > 0
    THEN /\ Cardinality(CallsOf("continue_fit")) = 1
         /\ Cardinality(CallsOf("update_feature_dict")) <= 1
         /\ \A c \in CallsOf("continue_fit") :
               /\ \E f \in CallsOf("fit") : f < c
               /\ \A u \in CallsOf("update_feature_dict") : u < c
         /\ model.n_estimators =
               (IF request.refit_estimators > RefitEstimatorsCap
                THEN RefitEstimatorsCap ELSE request.refit_estimators)
         /\ request.refit_early_stopping # <<>>
            => model.early_stopping =
                  (IF request.refit_early_stopping[1] < 1 THEN 1
                   ELSE IF request.refit_early_stopping[1] > RefitPatienceCap
                   THEN RefitPatienceCap ELSE request.refit_early_stopping[1])
    ELSE CallsOf("continue_fit") = {}

\* C15: every refit request on the incremental model with a positive
\* additional-rounds count calls continue_fit exactly once, after fit and
\* after the edits were applied in one update_feature_dict batch, with the
\* round count clamped to [1, 500] and a given patience clamped to [1, 200];
\* with a non-positive count continue_fit is never called.
C15_IncrementalFit == Refitting => IncrementalStep

----------------------------------------------------------------------------
(* The saved-model store: save_model and get_saved_model, lines 484-509.   *)
(* The endpoints are plain `def` handlers, which the server runs on worker *)
(* threads, so requests interleave at their file operations.  A name is a  *)
(* sequence of its parts, <<"m">> or <<"m", ".json">>; a payload is the    *)
(* sequence of the chunks its JSON text is flushed in; a file holds the    *)
(* chunks written so far.                                                  *)

MaxThreads == 3

JsonExt == ".json"

\* lines 487-489 and 503-504: the file name a request name denotes
SafeName(name) ==
    IF name[Len(name)] = JsonExt THEN name ELSE Append(name, JsonExt)

\* a position of a file that no write has filled
Hole == "hole"

\* f.write of one chunk at the writer's own offset
WriteAt(data, offset, chunk) ==
    [i \in 1..Max(Len(data), offset) |->
        IF i = offset THEN chunk
        ELSE IF i <= Len(data) THEN data[i] ELSE Hole]

StoreNames == {<<"m">>, <<"m", JsonExt>>}
Payloads == {<<"a1", "a2">>, <<"b1">>}

SaveRequests ==
    [op : {"save"}, name : StoreNames, payload : Payloads, at : {"start"},
     offset : {0}, status : {"pending"}, data : {<<>>}, seen : {<<>>}]

GetRequests ==
    [op : {"get"}, name : StoreNames, payload : {<<>>}, at : {"start"},
     offset : {0}, status : {"pending"}, data : {<<>>}, seen : {<<>>}]

StoreInit ==
    /\ pc = "store"
    /\ disk = NoDisk
    /\ threads \in [1..MaxThreads -> SaveRequests \cup GetRequests]
    /\ completed = <<>>
    /\ cat_info = NoCatInfo
    /\ shape_fn = EmptyShape /\ feat_values = <<>> /\ num_points = 0
    /\ contribs = None /\ normalized = None /\ renormalized = None
    /\ task_type = None /\ y_train = <<>> /\ total_train = <<>>
    /\ intercept_val = Zero /\ preds_train = <<>>
    /\ edited_partials = <<>> /\ updates = NoCatInfo /\ eval_key = None
    /\ request = None /\ model = None /\ calls = <<>>
    /\ outcome = None /\ response = None

StoreFrame == UNCHANGED <<pc, cat_info, curveVars, calibVars, editVars, reqVars>>

\* lines 505-507: mkdir, and open(path, "w") creates or truncates the file
OpenForWrite(t) ==
    /\ threads[t].op = "save" /\ threads[t].at = "start"
    /\ disk' = [f \in DOMAIN disk \cup {SafeName(threads[t].name)} |->
                   IF f = SafeName(threads[t].name) THEN <<>> ELSE disk[f]]
    /\ threads' = [threads EXCEPT ![t].at = "writing"]
    /\ UNCHANGED completed
    /\ StoreFrame

\* lines 508-509: json.dump flushes the next chunk; after the last one the
\* file is closed and the request returns
WriteChunk(t) ==
    /\ threads[t].op = "save" /\ threads[t].at = "writing"
    /\ LET k == threads[t].offset + 1
           last == k = Len(threads[t].payload)
       IN  /\ disk' = [disk EXCEPT ![SafeName(threads[t].name)] =
                          WriteAt(@, k, threads[t].payload[k])]
           /\ threads' = [threads EXCEPT
                 ![t].offset = k,
                 ![t].at = IF last THEN "done" ELSE @,
                 ![t].status = IF last THEN "ok" ELSE @]
           /\ completed' = IF last THEN Append(completed, t) ELSE completed
    /\ StoreFrame

\* lines 487-493: the 404 of a missing file, or open(path, "r")
Lookup(t) ==
    /\ threads[t].op = "get" /\ threads[t].at = "start"
    /\ threads' = IF SafeName(threads[t].name) \in DOMAIN disk
                  THEN [threads EXCEPT ![t].at = "opened"]
                  ELSE [threads EXCEPT ![t].at = "done", ![t].status = "404"]
    /\ UNCHANGED <<disk, completed>>
    /\ StoreFrame

\* line 494: json.load of what the file holds now.  The text of a whole
\* payload parses to it; an empty file raises; any other content raises or
\* parses to something, as its bytes have it.
Read(t) ==
    /\ threads[t].op = "get" /\ threads[t].at = "opened"
    /\ LET content == disk[SafeName(threads[t].name)]
       IN  \E status \in {"ok", "500"} :
              /\ content \in Payloads => status = "ok"
              /\ content = <<>> => status = "500"
              /\ threads' = [threads EXCEPT
                    ![t].at = "done",
                    ![t].status = status,
                    ![t].data = IF status = "ok" THEN content ELSE <<>>,
                    ![t].seen = completed]
    /\ UNCHANGED <<disk, completed>>
    /\ StoreFrame

StoreNext ==
    \E t \in 1..MaxThreads :
       OpenForWrite(t) \/ WriteChunk(t) \/ Lookup(t) \/ Read(t)

SpecStore == StoreInit /\ [][StoreNext]_vars

----------------------------------------------------------------------------
(* Properties of the saved-model store *)

\* C16: under any interleaving of saves and gets of one name (with or
\* without ".json"), a get that found the file returns the whole payload of
\* a save that had returned by then, and when every save had returned, the
\* payload of the last of them; a get never fails on, or returns, an empty
\* or partly written file.
C16_StoreAtomic ==
    \A t \in DOMAIN threads :
       (threads[t].op = "get" /\ threads[t].at = "done"
           /\ threads[t].status # "404")
       => /\ threads[t].status = "ok"
          /\ \E i \in 1..Len(threads[t].seen) :
                threads[threads[t].seen[i]].payload = threads[t].data
          /\ (\A s \in DOMAIN threads :
                 threads[s].op = "save"
                 => \E i \in 1..Len(threads[t].seen) : threads[t].seen[i] = s)
             => threads[threads[t].seen[Len(threads[t].seen)]].payload
                   = threads[t].data
====
